---- MODULE Spec2Model ----
(***************************************************************************)
(* Model of discogs_import.py: the __main__ script reads a CSV collection   *)
(* (get_csv_collection), authenticates, and uploads every record to the     *)
(* Discogs collection of a user (update_discogs_collection / search).       *)
(* The remote API is the environment: every response is chosen from a       *)
(* small set of responses.  `log` is the history of network requests and    *)
(* pauses the program has made.                                             *)
(***************************************************************************)
EXTENDS Integers, Sequences, FiniteSets, TLC

VARIABLES pc, header, rows, skip, limit, collection, idx, count,
          release, searchRes, searchOut, res, posted, log, err

vars == <<pc, header, rows, skip, limit, collection, idx, count,
          release, searchRes, searchOut, res, posted, log, err>>

\* ---------------------------------------------------------------- bounds
MaxRows == 3
MaxSkip == 3
MaxLimit == 3

\* ------------------------------------------------------ program constants
StatusOK == 200
StatusCreated == 201
RateThreshold == 5
DefaultRemaining == 0

\* ------------------------------------------------------------- CSV input
Required == {"Artist", "Title", "Year"}

\* headers of the input table: all required columns, or one of them missing
Headers == {Required} \cup {Required \ {c} : c \in Required}

Tags == {"x", "y"}

\* one row as csv.DictReader yields it: a dict keyed by the header's columns
Row(h, t) == [c \in h |-> t]

SeqsUpTo(S, n) == UNION {[1..k -> S] : k \in 0..n}

\* off by one: `count < skip`
SkippedLT(cnt, skp) == cnt < skp

\* `count <= skip` of get_csv_collection
Skipped(cnt, skp) == cnt <= skp

\* a lookup that falls back to a default value (record.get(key, ''))
LookupDefault(record, key) ==
    [found |-> TRUE, value |-> IF key \in DOMAIN record THEN record[key] ELSE ""]

\* record[key]: a dict lookup raises KeyError when the key is absent
Lookup(record, key) ==
    [found |-> key \in DOMAIN record,
     value |-> IF key \in DOMAIN record THEN record[key] ELSE ""]

\* whether record['Artist'], record['Title'], record['Year'] all succeed
HasKeys(record) == \A c \in Required : Lookup(record, c).found

MakeRecord(record) ==
    [artist |-> Lookup(record, "Artist").value,
     release_title |-> Lookup(record, "Title").value,
     year |-> Lookup(record, "Year").value, type |-> "release", country |-> "US"]

\* the for loop of get_csv_collection over the remaining rows
RECURSIVE ReadLoop(_, _, _, _)
ReadLoop(rest, cnt, skp, coll) ==
    IF rest = <<>> THEN [exc |-> "none", collection |-> coll]
    ELSE IF Skipped(cnt, skp) THEN ReadLoop(Tail(rest), cnt + 1, skp, coll)
    ELSE IF ~HasKeys(Head(rest)) THEN [exc |-> "KeyError", collection |-> <<>>]
    ELSE ReadLoop(Tail(rest), cnt + 1, skp, Append(coll, MakeRecord(Head(rest))))

get_csv_collection(rws, skp) == ReadLoop(rws, 1, skp, <<>>)

\* ------------------------------------------------------- search responses
R1 == [id |-> 1, title |-> "t1"]
R2 == [id |-> 2, title |-> "t2"]

\* body of a search response: not JSON at all, a JSON object without a
\* "results" field, or a JSON object with a "results" array
Bodies ==
    { [kind |-> "notjson", results |-> <<>>],
      [kind |-> "noresults", results |-> <<>>],
      [kind |-> "results", results |-> <<>>],
      [kind |-> "results", results |-> <<R1>>],
      [kind |-> "results", results |-> <<R2, R1>>] }

SearchStatuses == {200, 500}

\* transport = FALSE: session.get raised (no response at all)
SearchResponses ==
    { [transport |-> TRUE, status |-> s, body |-> b] : s \in SearchStatuses, b \in Bodies }
    \cup { [transport |-> FALSE, status |-> 0, body |-> [kind |-> "notjson", results |-> <<>>]] }

NoRelease == [id |-> 0, title |-> ""]

Raise(kind, status) == [raised |-> TRUE, kind |-> kind, status |-> status, release |-> NoRelease]
Return(r) == [raised |-> FALSE, kind |-> "none", status |-> 0, release |-> r]

\* data['results'][-1]
LastResult(results) == results[Len(results)]

\* data['results'][0]
FirstResult(results) == results[1]

\* search(): get, res.json(), status / 'results' check, emptiness check
search(resp) ==
    IF ~resp.transport THEN Raise("ConnectionError", 0)
    ELSE IF resp.body.kind = "notjson" THEN Raise("JSONDecodeError", 0)
    ELSE IF resp.status # StatusOK \/ resp.body.kind # "results"
         THEN Raise("Unexpected", resp.status)
    ELSE IF resp.body.results = <<>> THEN Raise("NoResults", 0)
    ELSE Return(FirstResult(resp.body.results))

\* ---------------------------------------------------------- add responses
AddStatuses == {201, 500}

Digits == <<"0", "1", "2", "3", "4", "5", "6", "7", "8", "9">>

IsDigit(ch) == \E d \in 1..10 : Digits[d] = ch

DigitVal(ch) == (CHOOSE d \in 1..10 : Digits[d] = ch) - 1

\* value of the X-Discogs-Ratelimit-Remaining header: a string (a sequence of
\* characters) when the header is present
NoHeader == <<>>
HeaderValues == {NoHeader, <<"3">>, <<"5">>, <<"1", "0">>, <<"x">>}

AddResponses == { [status |-> s, remaining |-> h] : s \in AddStatuses, h \in HeaderValues }

NoResponse == [status |-> 0, remaining |-> NoHeader]

\* int() accepts a non-empty string of decimal digits (and the integer
\* default); everything else raises ValueError
RECURSIVE DecimalValue(_, _)
DecimalValue(chars, acc) ==
    IF chars = <<>> THEN acc
    ELSE DecimalValue(Tail(chars), 10 * acc + DigitVal(Head(chars)))

\* res.headers.get('X-Discogs-Ratelimit-Remaining', 0)
HeaderGet(r) == IF r.remaining = NoHeader THEN [present |-> FALSE, chars |-> <<>>]
                ELSE [present |-> TRUE, chars |-> r.remaining]

IntParses(h) == ~h.present \/ \A k \in 1..Len(h.chars) : IsDigit(h.chars[k])

IntOf(h) == IF ~h.present THEN DefaultRemaining ELSE DecimalValue(h.chars, 0)

\* `int(remaining_calls) <= 5`
ShouldPauseLE(v) == v <= RateThreshold

\* `int(remaining_calls) < 5`
ShouldPause(v) == v < RateThreshold

\* only a client error (4xx) counts as a failed add
AddFailedClientError(status) == status >= 400 /\ status < 500

\* `res.status_code != 201`
AddFailed(status) == status # StatusCreated

\* `count == limit`
LimitReached(cnt, lim) == cnt = lim

\* an except clause that catches only the failures search raises itself
CaughtOwn(kind) == kind \in {"Unexpected", "NoResults"}

\* `except Exception` around the call of search
Caught(kind) == TRUE

\* ------------------------------------------------------------ the events
\* ok: the search returned a release / the add response had status 201
GetEvent(i, ok) == [op |-> "GET", rec |-> i, ok |-> ok]
PostEvent(i, ok) == [op |-> "POST", rec |-> i, ok |-> ok]
SleepEvent(i) == [op |-> "SLEEP", rec |-> i, ok |-> TRUE]

\* the for loop over collection: the next record, or the end of the loop
LoopPc(i) == IF i > Len(collection) THEN "done" ELSE "search"

\* ------------------------------------------------------------------ Init
Init ==
    /\ pc = "read"
    /\ header \in Headers
    /\ \E ts \in SeqsUpTo(Tags, MaxRows) : rows = [k \in 1..Len(ts) |-> Row(header, ts[k])]
    /\ skip \in 0..MaxSkip
    /\ limit \in 0..MaxLimit
    /\ collection = <<>>
    /\ idx = 0
    /\ count = 0
    /\ release = NoRelease
    /\ searchRes = [transport |-> FALSE, status |-> 0, body |-> [kind |-> "notjson", results |-> <<>>]]
    /\ searchOut = Raise("none", 0)
    /\ res = NoResponse
    /\ posted = 0
    /\ log = <<>>
    /\ err = "none"

\* __main__: collection = get_csv_collection(args.filename, skip=args.skip)
ReadCollection ==
    /\ pc = "read"
    /\ LET r == get_csv_collection(rows, skip) IN
         IF r.exc # "none"
         THEN /\ pc' = "error"
              /\ err' = r.exc
              /\ UNCHANGED collection
         ELSE /\ pc' = "check"
              /\ collection' = r.collection
              /\ UNCHANGED err
    /\ UNCHANGED <<header, rows, skip, limit, idx, count, release, searchRes,
                   searchOut, res, posted, log>>

\* __main__: if not collection: sys.exit(1)
CheckCollection ==
    /\ pc = "check"
    /\ pc' = IF collection = <<>> THEN "exit1" ELSE "auth"
    /\ UNCHANGED <<header, rows, skip, limit, collection, idx, count, release,
                   searchRes, searchOut, res, posted, log, err>>

\* authenticate(): the token file is readable, or the process exits with 1
Authenticate ==
    /\ pc = "auth"
    /\ \E readable \in BOOLEAN : pc' = IF readable THEN "update" ELSE "exit1"
    /\ UNCHANGED <<header, rows, skip, limit, collection, idx, count, release,
                   searchRes, searchOut, res, posted, log, err>>

\* update_discogs_collection is entered: count = 1, the loop starts at the
\* first record (the collection is not empty here)
EnterUpdate ==
    /\ pc = "update"
    /\ count' = 1
    /\ idx' = 1
    /\ pc' = LoopPc(1)
    /\ UNCHANGED <<header, rows, skip, limit, collection, release, searchRes,
                   searchOut, res, posted, log, err>>

\* one iteration up to the result of search(session, **record)
SearchStep ==
    /\ pc = "search"
    /\ \E resp \in SearchResponses :
         LET out == search(resp) IN
           /\ searchRes' = resp
           /\ searchOut' = out
           /\ log' = Append(log, GetEvent(idx, ~out.raised))
           /\ IF out.raised
              THEN IF Caught(out.kind)
                   THEN /\ count' = count + 1
                        /\ idx' = idx + 1
                        /\ pc' = LoopPc(idx + 1)
                        /\ UNCHANGED <<release, err>>
                   ELSE /\ pc' = "error"
                        /\ err' = out.kind
                        /\ UNCHANGED <<count, idx, release>>
              ELSE /\ release' = out.release
                   /\ pc' = "add"
                   /\ UNCHANGED <<count, idx, err>>
    /\ UNCHANGED <<header, rows, skip, limit, collection, res, posted>>

\* the rest of the iteration: the POST, the status check, the limit check
\* and the rate limit check with its pause
AddStep ==
    /\ pc = "add"
    /\ \E r \in AddResponses :
         LET h == HeaderGet(r) IN
           /\ res' = r
           /\ posted' = release.id
           /\ IF AddFailed(r.status)
              THEN /\ log' = Append(log, PostEvent(idx, r.status = StatusCreated))
                   /\ pc' = "error"
                   /\ err' = "AddFailed"
                   /\ UNCHANGED <<count, idx>>
              ELSE IF LimitReached(count, limit)
              THEN /\ log' = Append(log, PostEvent(idx, r.status = StatusCreated))
                   /\ pc' = "done"
                   /\ UNCHANGED <<count, idx, err>>
              ELSE IF ~IntParses(h)
              THEN /\ log' = Append(log, PostEvent(idx, r.status = StatusCreated))
                   /\ count' = count + 1
                   /\ pc' = "error"
                   /\ err' = "ValueError"
                   /\ UNCHANGED idx
              ELSE /\ log' = IF ShouldPause(IntOf(h))
                             THEN log \o <<PostEvent(idx, r.status = StatusCreated), SleepEvent(idx)>>
                             ELSE Append(log, PostEvent(idx, r.status = StatusCreated))
                   /\ count' = count + 1
                   /\ idx' = idx + 1
                   /\ pc' = LoopPc(idx + 1)
                   /\ UNCHANGED err
    /\ UNCHANGED <<header, rows, skip, limit, collection, release, searchRes, searchOut>>

Next ==
    \/ ReadCollection
    \/ CheckCollection
    \/ Authenticate
    \/ EnterUpdate
    \/ SearchStep
    \/ AddStep

Spec == Init /\ [][Next]_vars

\* ------------------------------------------------------ history helpers
IsRequest(e) == e.op \in {"GET", "POST"}

Gets == {k \in DOMAIN log : log[k].op = "GET"}
Posts == {k \in DOMAIN log : log[k].op = "POST"}
Sleeps == {k \in DOMAIN log : log[k].op = "SLEEP"}

\* the records sent to the add endpoint, in the order of the requests
IsPost(e) == e.op = "POST"
PostRecs == LET ps == SelectSeq(log, IsPost) IN [k \in 1..Len(ps) |-> ps[k].rec]

\* position of the latest add request
LastPost == CHOOSE k \in Posts : \A j \in Posts : j <= k

Min(a, b) == IF a < b THEN a ELSE b

\* update_discogs_collection has been entered
InUpdate == idx >= 1

\* C1: with limit = L > 0 at most L records are ever searched, and no record
\* after the L-th is sent to the search or the add endpoint.
C1_LimitBoundsVisited ==
    limit > 0 =>
        /\ Cardinality(Gets) <= limit
        /\ \A k \in DOMAIN log : IsRequest(log[k]) => log[k].rec <= limit

\* C2: an add response with a status other than 201 is the last thing the
\* run does: it aborts with the add error, and no search, add or pause
\* follows it, whatever the limit and the number of records left.
C2_AddFailureAborts ==
    \A k \in Posts :
        ~log[k].ok => /\ k = Len(log)
                      /\ pc = "error"
                      /\ err = "AddFailed"

\* C2 witness: an add failed while records were left and the limit was not reached
C2_Witness ==
    /\ pc = "error"
    /\ err = "AddFailed"
    /\ idx < Len(collection)
    /\ count # limit
    /\ res.status = 500

C4_PauseIffBelowFive ==
    /\ \A p \in Sleeps : /\ p > 1
                         /\ log[p - 1] = PostEvent(log[p].rec, TRUE)
    /\ (/\ Posts # {}
        /\ res.status = 201
        /\ res.remaining # NoHeader
        /\ \A c \in 1..Len(res.remaining) : IsDigit(res.remaining[c])
        /\ \/ pc = "search"
           \/ \E j \in Gets : j > LastPost)
       => LET v == DecimalValue(res.remaining, 0)
              paused == LastPost < Len(log) /\ log[LastPost + 1].op = "SLEEP"
          IN  /\ paused <=> v < 5
              /\ \A j \in Gets : j > LastPost => j >= LastPost + (IF paused THEN 2 ELSE 1)

\* C4 witness: header value 3, a pause, then the search of the next record
C4_Witness ==
    /\ Posts # {}
    /\ res = [status |-> 201, remaining |-> <<"3">>]
    /\ LastPost + 2 = Len(log)
    /\ log[LastPost + 1].op = "SLEEP"
    /\ log[LastPost + 2].op = "GET"

\* C5: when every search returns a result and every add returns 201, a
\* finished run has sent exactly the first min(L, n) records to the add
\* endpoint, in file order (all n records when limit = 0).
C5_AddsFirstMinLimitRecords ==
    (/\ InUpdate
     /\ pc \in {"done", "error"}
     /\ \A k \in DOMAIN log : IsRequest(log[k]) => log[k].ok)
    => LET n == Len(collection)
           m == IF limit > 0 THEN Min(limit, n) ELSE n
       IN  PostRecs = [k \in 1..m |-> k]

\* C6: with the required columns present, skip = N on m data rows yields the
\* records of rows N+1..m in file order, and the empty list when N >= m.
C6_SkipDropsFirstRows ==
    (header = Required /\ pc # "read") =>
        LET m == Len(rows) IN
        /\ err # "KeyError"
        /\ Len(collection) = (IF skip < m THEN m - skip ELSE 0)
        /\ \A i \in 1..Len(collection) :
             collection[i] = [artist |-> rows[skip + i]["Artist"],
                              release_title |-> rows[skip + i]["Title"],
                              year |-> rows[skip + i]["Year"],
                              type |-> "release", country |-> "US"]

\* C6 witness: rows were skipped whose content differs from the first row kept
C6_Witness ==
    /\ pc = "check"
    /\ header = Required
    /\ skip > 0
    /\ skip < Len(rows)
    /\ rows[1] # rows[skip + 1]
    /\ Len(collection) = Len(rows) - skip

\* C7 (as claimed): a table whose header lacks a required column makes the
\* read fail with the key-lookup error, for every skip value and row count,
\* before any network request.
C7_MissingColumnAlwaysFails ==
    (header # Required /\ pc # "read") =>
        /\ pc = "error"
        /\ err = "KeyError"
        /\ log = <<>>

\* C7 (amended): a table whose header lacks a required column never leads to
\* a network request; the read fails with the key-lookup error when a data
\* row is left after skipping (skip < m), and otherwise returns the empty
\* list, on which the program exits.
C7_MissingColumnFailsOnFirstKeptRow ==
    header # Required =>
        /\ log = <<>>
        /\ pc # "read" =>
             IF skip < Len(rows)
             THEN pc = "error" /\ err = "KeyError"
             ELSE pc \in {"check", "exit1"} /\ collection = <<>> /\ err = "none"

\* C7 witness: the read failed on the first row kept, after skipping one
C7_Witness ==
    /\ header = Required \ {"Year"}
    /\ skip = 1
    /\ Len(rows) = 2
    /\ pc = "error"
    /\ err = "KeyError"

\* C8: after a 201 add whose rate header is missing or not an integer, the
\* run does not abort: it pauses and goes on (unless the limit ended the loop).
C8_BadHeaderDefaultsToZero ==
    (/\ Posts # {}
     /\ res.status = 201
     /\ \/ res.remaining = NoHeader
        \/ \E c \in 1..Len(res.remaining) : ~IsDigit(res.remaining[c]))
    => /\ pc # "error"
       /\ \/ LastPost < Len(log) /\ log[LastPost + 1].op = "SLEEP"
          \/ LastPost = Len(log) /\ pc = "done" /\ count = limit

\* C9: every record gets at most one search and at most one add, in file
\* order; an add follows a successful search of the same record and carries
\* the id of the first search result; no record is both added and skipped.
C9_EachRecordOnceInOrder ==
    /\ \A j, k \in Gets : j < k => log[j].rec < log[k].rec
    /\ \A j, k \in Posts : j < k => log[j].rec < log[k].rec
    /\ \A k \in Posts : k > 1 /\ log[k - 1] = GetEvent(log[k].rec, TRUE)
    /\ \A k \in Gets : ~log[k].ok => \A j \in Posts : log[j].rec # log[k].rec
    /\ pc = "add" => /\ log[Len(log)] = GetEvent(idx, TRUE)
                     /\ release = searchRes.body.results[1]
    /\ (Posts # {} /\ \A j \in Gets : j < LastPost)
       => posted = searchRes.body.results[1].id

\* C9 witness: the first record was skipped, the second added with the id of
\* the first of two search results
C9_Witness ==
    /\ Len(log) >= 3
    /\ log[1] = GetEvent(1, FALSE)
    /\ log[2] = GetEvent(2, TRUE)
    /\ log[3] = PostEvent(2, TRUE)
    /\ searchRes.body.results = <<R2, R1>>
    /\ posted = 2

\* the outcome C10 claims for a response
Claimed(resp) ==
    IF resp.status # 200 \/ resp.body.kind # "results" THEN Raise("Unexpected", resp.status)
    ELSE IF resp.body.results = <<>> THEN Raise("NoResults", 0)
    ELSE Return(resp.body.results[1])

\* C10: search fails with the 'Unexpected error' failure (with the status)
\* on a non-200 status or a body without results, with 'No results found' on
\* empty results, and returns the first result otherwise.
C10_SearchClassification ==
    (Gets # {} /\ searchRes.transport) => searchOut = Claimed(searchRes)

====
